---------------------------- MODULE Spec2Model ----------------------------
(***************************************************************************)
(* Model of the job endpoints of resume-scanner:                           *)
(*   src/api/job_api.py        upload_job, get_job                         *)
(*   src/service/job_service.py JobService                                 *)
(*   src/core/database.py      get_db_session                              *)
(*                                                                         *)
(* Every request runs on its own task with its own AsyncSession.  A task   *)
(* is one process of the model; its steps are the stretches of code        *)
(* between two awaits.  The database is the set of committed rows; what a  *)
(* session has added or flushed and not committed is private to it.        *)
(*                                                                         *)
(* Python text is a sequence of atoms: the separator "|", the blank " ",   *)
(* and words (runs of other characters).  A Python value is a record       *)
(* [t |-> its type, v |-> its atoms].                                      *)
(***************************************************************************)
EXTENDS Integers, Sequences, FiniteSets, TLC

(***************************************************************************)
(* Bounds of the model.                                                    *)
(***************************************************************************)
MaxIds == 3
MaxDescs == 3
MaxLocLen == 5
MaxItems == 2

\* the tasks that serve requests: two run side by side
Procs == { 1, 2 }

(***************************************************************************)
(* Python values.                                                          *)
(***************************************************************************)
Str(s) == [t |-> "str", v |-> s]
None == [t |-> "NoneType", v |-> <<>>]
PyDict == [t |-> "dict", v |-> <<>>]
PyList == [t |-> "list", v |-> <<>>]
PyInt == [t |-> "int", v |-> <<>>]
\* a list of values, and a mapping given as its items in order
List(items) == [t |-> "list", v |-> items]
Dict(items) == [t |-> "dict", v |-> items]
Item(key, x) == [k |-> key, x |-> x]

\* hash(x): dict and list are unhashable, `x in a_dict` raises TypeError on them
Hashable(x) == x.t \notin {"dict", "list"}

\* bool(x) for the values of the model (the int of the model is nonzero)
Truthy(x) ==
  CASE x.t \in {"str", "list", "dict"} -> x.v # <<>>
    [] x.t = "NoneType" -> FALSE
    [] OTHER -> TRUE

SEP == "|"
BLANK == " "

\* the keys (and, identically, the values) of allowed_locations
allowed_locations ==
  { <<"Fully", BLANK, "Remote">>,
    <<"Remote">>,
    <<"Hybrid">>,
    <<"On-site">>,
    <<"Not", BLANK, "Specified">>,
    <<"Multiple", BLANK, "Locations">> }

NotSpecified == Str(<<"Not", BLANK, "Specified">>)

\* `x in allowed_locations` for a hashable x
InAllowed(x) == x.t = "str" /\ x.v \in allowed_locations

\* `"|" in loc`
Contains(s, a) == \E i \in 1..Len(s) : s[i] = a

\* str.split("|"): the pieces between separators, empty pieces included
RECURSIVE SplitFrom(_, _, _)
SplitFrom(s, i, cur) ==
  IF i > Len(s) THEN <<cur>>
  ELSE IF s[i] = SEP THEN <<cur>> \o SplitFrom(s, i + 1, <<>>)
  ELSE SplitFrom(s, i + 1, Append(cur, s[i]))

Split(s) == SplitFrom(s, 1, <<>>)

\* str.strip(): leading and trailing blanks removed
RECURSIVE LStrip(_)
LStrip(s) == IF s # <<>> /\ Head(s) = BLANK THEN LStrip(Tail(s)) ELSE s

RECURSIVE RStrip(_)
RStrip(s) ==
  IF s # <<>> /\ s[Len(s)] = BLANK THEN RStrip(SubSeq(s, 1, Len(s) - 1)) ELSE s

Strip(s) == RStrip(LStrip(s))

\* a variant that leaves the blanks around a piece
loc_options_unstripped(s) == Split(s)

loc_options(s) == [i \in 1..Len(Split(s)) |-> Strip(Split(s)[i])]


(***************************************************************************)
(* The output of the agent, as far as the service looks at it:             *)
(*   kind          "dict" for a mapping, "str" for raw text                *)
(*   has_location  the mapping has the key "location"                      *)
(*   location      the value under that key                                *)
(*   schema_ok     the rest of the output satisfies StructuredJobModel     *)
(*   fields        the other list- and object-valued fields of the output  *)
(***************************************************************************)
\* the fields of an output of the agent: objects for the company, the
\* qualifications, the compensation and the application, lists of texts
\* for the responsibilities and the keywords
OutputFields ==
  [company_profile |-> Dict(<<Item(<<"company_name">>, Str(<<"x">>))>>),
   key_responsibilities |-> List(<<Str(<<"a">>), Str(<<"b">>)>>),
   qualifications |-> Dict(<<Item(<<"required">>, List(<<Str(<<"a">>)>>))>>),
   compensation_and_benfits |-> None,
   application_info |-> Dict(<<Item(<<"apply_link">>, Str(<<"x">>))>>),
   extracted_keywords |-> List(<<Str(<<"a">>)>>)]

RawOutput(kind, has, loc, ok) ==
  [kind |-> kind, has_location |-> has, location |-> loc, schema_ok |-> ok,
   fields |-> OutputFields]

\* lines 172-177: the for loop over the options, raw_output["location"] = cur
RECURSIVE for_option(_, _, _)
for_option(opts, i, cur) ==
  IF i > Len(opts) THEN cur
  ELSE IF opts[i] \in allowed_locations THEN Str(opts[i])
  ELSE for_option(opts, i + 1, NotSpecified)

\* lines 149-159: the guarded membership test; a TypeError is caught and logged
guarded_default(loc) ==
  IF Hashable(loc) /\ ~InAllowed(loc) THEN NotSpecified ELSE loc

\* lines 143-179: the normalization of raw_output["location"].
\* exc is the exception that leaves the block, "none" when it completes.
normalize_location(raw) ==
  IF ~(raw.kind = "dict" /\ raw.has_location)
  THEN [exc |-> "none", out |-> raw]
  ELSE LET loc == raw.location
           first == guarded_default(loc)
       IN  IF loc.t = "str" /\ Contains(loc.v, SEP)
           THEN [exc |-> "none",
                 out |-> [raw EXCEPT !.location =
                            for_option(loc_options(loc.v), 1, first)]]
           ELSE IF ~Hashable(loc)
           THEN [exc |-> "TypeError", out |-> [raw EXCEPT !.location = first]]
           ELSE IF ~InAllowed(loc)
           THEN [exc |-> "none", out |-> [raw EXCEPT !.location = NotSpecified]]
           ELSE [exc |-> "none", out |-> [raw EXCEPT !.location = first]]

\* StructuredJobModel.model_validate: a mapping that satisfies the schema,
\* whose location, when present, is one of the enumeration
model_validate(raw) ==
  /\ raw.kind = "dict"
  /\ raw.schema_ok
  /\ raw.has_location => InAllowed(raw.location)

\* structured_job.model_dump(mode="json"), the fields the model follows
model_dump(raw) ==
  [location |-> IF raw.has_location THEN raw.location ELSE None,
   company_profile |-> raw.fields.company_profile,
   key_responsibilities |-> raw.fields.key_responsibilities,
   qualifications |-> raw.fields.qualifications,
   compensation_and_benfits |-> raw.fields.compensation_and_benfits,
   application_info |-> raw.fields.application_info,
   extracted_keywords |-> raw.fields.extracted_keywords]

\* json.dumps: a string is the text between double quotes, None is null,
\* a list and a mapping are written with the separators ", " and ": "
QUOTE == "\""
COMMA == ","
COLON == ":"

RECURSIVE json_dumps(_), dump_items(_, _), dump_pairs(_, _)
json_dumps(x) ==
  CASE x.t = "str" -> <<QUOTE>> \o x.v \o <<QUOTE>>
    [] x.t = "NoneType" -> <<"null">>
    [] x.t = "list" -> <<"[">> \o dump_items(x.v, 1) \o <<"]">>
    [] x.t = "dict" -> <<"{">> \o dump_pairs(x.v, 1) \o <<"}">>

dump_items(v, i) ==
  IF i > Len(v) THEN <<>>
  ELSE (IF i > 1 THEN <<COMMA, BLANK>> ELSE <<>>)
         \o json_dumps(v[i]) \o dump_items(v, i + 1)

dump_pairs(v, i) ==
  IF i > Len(v) THEN <<>>
  ELSE (IF i > 1 THEN <<COMMA, BLANK>> ELSE <<>>)
         \o <<QUOTE>> \o v[i].k \o <<QUOTE, COLON, BLANK>>
         \o json_dumps(v[i].x) \o dump_pairs(v, i + 1)

\* json.loads: the value that starts at position i of the text, and the
\* position behind it
CloseQuote(text, i) ==
  CHOOSE j \in (i + 1)..Len(text) :
    text[j] = QUOTE /\ \A k \in (i + 1)..(j - 1) : text[k] # QUOTE

RECURSIVE parse_value(_, _), parse_items(_, _, _), parse_pairs(_, _, _)
parse_value(text, i) ==
  IF text[i] = BLANK THEN parse_value(text, i + 1)
  ELSE IF text[i] = QUOTE
  THEN LET j == CloseQuote(text, i)
       IN  [val |-> Str(SubSeq(text, i + 1, j - 1)), next |-> j + 1]
  ELSE IF text[i] = "null" THEN [val |-> None, next |-> i + 1]
  ELSE IF text[i] = "[" THEN parse_items(text, i + 1, <<>>)
  ELSE parse_pairs(text, i + 1, <<>>)

parse_items(text, i, acc) ==
  IF text[i] = "]" THEN [val |-> List(acc), next |-> i + 1]
  ELSE IF text[i] \in {COMMA, BLANK} THEN parse_items(text, i + 1, acc)
  ELSE LET r == parse_value(text, i)
       IN  parse_items(text, r.next, Append(acc, r.val))

parse_pairs(text, i, acc) ==
  IF text[i] = "}" THEN [val |-> Dict(acc), next |-> i + 1]
  ELSE IF text[i] \in {COMMA, BLANK} THEN parse_pairs(text, i + 1, acc)
  ELSE LET key == parse_value(text, i)
           r == parse_value(text, key.next + 1)
       IN  parse_pairs(text, r.next, Append(acc, Item(key.val.v, r.val)))

json_loads(text) == parse_value(text, 1).val

\* d.get(key, default) of a mapping d
dict_get(d, key, default) ==
  IF \E i \in 1..Len(d.v) : d.v[i].k = key
  THEN d.v[CHOOSE i \in 1..Len(d.v) : d.v[i].k = key].x
  ELSE default

(***************************************************************************)
(* Requests.                                                               *)
(***************************************************************************)
APPLICATION_JSON == <<"application/json">>
NoHeader == None

\* the Content-Type headers a client sends: none, the exact one, the exact one
\* with a parameter
ContentTypes ==
  { NoHeader,
    Str(APPLICATION_JSON),
    Str(<<"application/json", ";", BLANK, "charset=utf-8">>) }

allowed_content_types == { APPLICATION_JSON }

\* a variant that only looks for a missing header
content_type_missing_only(ct) == ~Truthy(ct)

\* lines 54-65 of upload_job: the header is missing, or is not an allowed one
content_type_rejected(ct) ==
  \/ ~Truthy(ct)
  \/ ct.v \notin allowed_content_types

\* str(resume_id); str(None) is the text "None"
py_str(x) == IF x.t = "NoneType" THEN <<"None">> ELSE x.v

Descriptions == { <<"a">>, <<"b">> }
RECURSIVE SeqsUpTo(_, _)
SeqsUpTo(S, n) ==
  IF n = 0 THEN { <<>> }
  ELSE LET shorter == SeqsUpTo(S, n - 1)
       IN  shorter \cup { Append(q, x) : q \in shorter, x \in S }

DescriptionLists == SeqsUpTo(Descriptions, MaxDescs)

\* the upload requests of the model: every list of descriptions for the
\* resume that exists; lists of every length for one that does not and for a
\* payload without resume_id; a well-formed payload under each header the
\* handler turns down
Upload(ct, rid, descs) ==
  [kind |-> "upload", content_type |-> ct, resume_id |-> rid,
   job_descriptions |-> descs, job_id |-> <<>>]

UploadRequests ==
  { Upload(Str(APPLICATION_JSON), Str(<<"r1">>), d) : d \in DescriptionLists }
    \cup { Upload(Str(APPLICATION_JSON), rid, d) :
             rid \in { Str(<<"r2">>), None },
             d \in SeqsUpTo({ <<"a">> }, MaxDescs) }
    \cup { Upload(ct, Str(<<"r1">>), << <<"a">> >>) :
             ct \in ContentTypes \ { Str(APPLICATION_JSON) } }

\* a variant that hands out one identifier for every draw
uuid4_repeat(n) == <<"uuid", 1>>

\* uuid.uuid4(): the n-th identifier drawn; no two draws are equal
uuid4(n) == <<"uuid", n>>
EmptyId == <<>>
\* the job_id query parameters of the model: empty, every identifier the
\* service can draw, and one it never draws
QueryIds == { EmptyId } \cup { uuid4(n) : n \in 0..MaxIds }

\* a variant with the two texts in each other's place
Job_swapped(job_id, resume_id, content) ==
  [job_id |-> job_id, resume_id |-> content, content |-> resume_id]

\* Job(job_id=..., resume_id=..., content=...)
Job(job_id, resume_id, content) ==
  [job_id |-> job_id, resume_id |-> resume_id, content |-> content]

\* json.dumps(x) if x else None
dumps_or_none(x) == IF Truthy(x) THEN Str(json_dumps(x)) ELSE None

\* json.dumps({key: x}) if x else None
dumps_wrapped(key, x) ==
  IF Truthy(x) THEN Str(json_dumps(Dict(<<Item(key, x)>>))) ELSE None

\* a variant that does not set the foreign key
ProcessedJob_unkeyed(job_id, structured_job) ==
  [job_id |-> EmptyId,
   location |-> dumps_or_none(structured_job.location),
   company_profile |-> dumps_or_none(structured_job.company_profile),
   key_responsibilities |->
     dumps_wrapped(<<"key_responsibilities">>,
                   structured_job.key_responsibilities),
   qualifications |-> dumps_or_none(structured_job.qualifications),
   compensation_and_benfits |->
     dumps_or_none(structured_job.compensation_and_benfits),
   application_info |-> dumps_or_none(structured_job.application_info),
   extracted_keywords |->
     dumps_wrapped(<<"extracted_keywords">>,
                   structured_job.extracted_keywords)]

\* lines 76-109: ProcessedJob(job_id=..., company_profile=json.dumps(..) if
\* .. else None, ...); the responsibilities and the keywords are wrapped in
\* a mapping under their name, the other fields are written as they are
ProcessedJob(job_id, structured_job) ==
  [job_id |-> job_id,
   location |-> dumps_or_none(structured_job.location),
   company_profile |-> dumps_or_none(structured_job.company_profile),
   key_responsibilities |->
     dumps_wrapped(<<"key_responsibilities">>,
                   structured_job.key_responsibilities),
   qualifications |-> dumps_or_none(structured_job.qualifications),
   compensation_and_benfits |->
     dumps_or_none(structured_job.compensation_and_benfits),
   application_info |-> dumps_or_none(structured_job.application_info),
   extracted_keywords |->
     dumps_wrapped(<<"extracted_keywords">>,
                   structured_job.extracted_keywords)]

\* what the agent call ends in: an exception, or an output
AgentOutputs ==
  { RawOutput("str", FALSE, None, FALSE),
    RawOutput("dict", TRUE, Str(<<"x", BLANK, SEP, BLANK, "Remote">>), TRUE),
    RawOutput("dict", TRUE, Str(<<"x">>), FALSE),
    RawOutput("dict", TRUE, PyDict, TRUE) }

(***************************************************************************)
(* State.                                                                  *)
(***************************************************************************)
VARIABLES
  resumes,         \* table Resume: the resume_id of its rows
  jobs,            \* table Job: the committed rows
  processed_jobs,  \* table ProcessedJob: the committed rows
  uuid_count,      \* how many identifiers uuid4 has drawn
  pc,              \* where each request's task stands
  req,             \* the request a task serves
  sess,            \* its AsyncSession: objects added, rows flushed
  frame,           \* the locals of the service call
  resp,            \* the response, once decided
  db_ops,          \* statements the request has sent to the database
  agent_calls,     \* positions of the descriptions the agent was run for
  job_state,       \* the state of the state machine of each job drawn
  validated,       \* identifiers whose output passed model_validate
  norm_in,         \* an agent output handed to the normalization
  norm_out,        \* what the normalization made of it
  rt_job,          \* a validated structured job handed to the storing
  rt_row,          \* the ProcessedJob row written for it
  rt_out           \* what the retrieval answered for that row

vars ==
  << resumes, jobs, processed_jobs, uuid_count, pc, req, sess, frame, resp,
     db_ops, agent_calls, job_state, validated, norm_in, norm_out,
                  rt_job, rt_row, rt_out >>

NoRequest ==
  [kind |-> "none", content_type |-> None, resume_id |-> None,
   job_descriptions |-> <<>>, job_id |-> EmptyId]

\* AsyncSessionLocal(): nothing added, nothing flushed, no transaction begun
NewSession ==
  [new_jobs |-> {}, new_processed |-> {},
   flushed_jobs |-> {}, flushed_processed |-> {}, begun |-> FALSE]

NoFrame == [i |-> 0, job_ids |-> <<>>, job_id |-> EmptyId, job |-> {}]
NoResponse == [status |-> 0, exc |-> "none", job_id |-> <<>>, data |-> {}]
Pending == [exc |-> "pending"]

Init ==
  /\ resumes = { <<"r1">> }
  /\ jobs = {}
  /\ processed_jobs = {}
  /\ uuid_count = 0
  /\ pc = [p \in Procs |-> "idle"]
  /\ req = [p \in Procs |-> NoRequest]
  /\ sess = [p \in Procs |-> NewSession]
  /\ frame = [p \in Procs |-> NoFrame]
  /\ resp = [p \in Procs |-> NoResponse]
  /\ db_ops = [p \in Procs |-> 0]
  /\ agent_calls = [p \in Procs |-> <<>>]
  /\ job_state = [n \in 1..MaxIds |-> "none"]
  /\ validated = {}
  /\ norm_in = RawOutput("str", FALSE, None, FALSE)
  /\ norm_out = Pending
  /\ rt_job = model_dump(RawOutput("dict", FALSE, None, TRUE))
  /\ rt_row = {}
  /\ rt_out = NoResponse

(***************************************************************************)
(* The session and the handlers' exception clauses.                        *)
(***************************************************************************)
\* session.flush(): the added objects are inserted inside the transaction
session_flush(s) ==
  [s EXCEPT !.flushed_jobs = @ \cup s.new_jobs,
            !.flushed_processed = @ \cup s.new_processed,
            !.new_jobs = {},
            !.new_processed = {},
            !.begun = TRUE]

\* a variant that loses the rows already flushed
committed_jobs_unflushed(s) == s.new_jobs

\* session.commit(): flushes what is added, then the transaction's rows are
\* committed; these are the rows it adds to a table
committed_jobs(s) == s.flushed_jobs \cup s.new_jobs
\* a variant that loses the ProcessedJob rows already flushed
committed_processed_unflushed(s) == s.new_processed

committed_processed(s) == s.flushed_processed \cup s.new_processed

\* a variant that finds every resume
is_resume_available_always(resume_id, table) == TRUE

\* _is_resume_available: select(Resume).where(Resume.resume_id == resume_id)
is_resume_available(resume_id, table) == resume_id \in table

\* upload_job, lines 67-81: the status for what create_and_store_job raised
upload_job_status(exc) ==
  CASE exc = "none" -> 200
    [] exc = "AssertionError" -> 400
    [] OTHER -> 500

\* a variant without the clause for JobNotFoundError
get_job_status_generic(exc) == IF exc = "none" THEN 200 ELSE 500

\* get_job, lines 117-165: the status for what was raised inside the try
get_job_status(exc) ==
  CASE exc = "none" -> 200
    [] exc = "JobNotFoundError" -> 404
    [] OTHER -> 500

Raised(status, exc) ==
  [status |-> status, exc |-> exc, job_id |-> <<>>, data |-> {}]

\* identifiers still to be drawn by the uploads in progress
Remaining(p) ==
  IF req[p].kind = "upload" /\ pc[p] \notin {"idle", "exit", "done"}
  THEN Len(req[p].job_descriptions) - frame[p].i
  ELSE 0

RECURSIVE Reserved(_)
Reserved(S) ==
  IF S = {} THEN 0
  ELSE LET p == CHOOSE q \in S : TRUE
       IN  Remaining(p) + Reserved(S \ {p})

Number(job_id) == job_id[2]

(***************************************************************************)
(* POST /upload                                                            *)
(***************************************************************************)
\* upload_job up to its first await: the Content-Type check
UploadRequest(p) ==
  /\ pc[p] = "idle"
  /\ \E r \in UploadRequests :
       /\ uuid_count + Reserved(Procs) + Len(r.job_descriptions) <= MaxIds
       /\ req' = [req EXCEPT ![p] = r]
       /\ IF content_type_rejected(r.content_type)
          THEN /\ resp' = [resp EXCEPT ![p] = Raised(400, "HTTPException")]
               /\ pc' = [pc EXCEPT ![p] = "exit"]
          ELSE /\ resp' = resp
               /\ pc' = [pc EXCEPT ![p] = "is_resume_available"]
  /\ UNCHANGED << resumes, jobs, processed_jobs, uuid_count, sess, frame,
                  db_ops, agent_calls, job_state, validated, norm_in, norm_out,
                  rt_job, rt_row, rt_out >>

\* create_and_store_job, lines 31-38
ResumeLookup(p) ==
  /\ pc[p] = "is_resume_available"
  /\ db_ops' = [db_ops EXCEPT ![p] = @ + 1]
  /\ sess' = [sess EXCEPT ![p].begun = TRUE]
  /\ IF is_resume_available(py_str(req[p].resume_id), resumes)
     THEN /\ pc' = [pc EXCEPT ![p] = "loop"]
          /\ resp' = resp
     ELSE /\ pc' = [pc EXCEPT ![p] = "exit"]
          /\ resp' = [resp EXCEPT ![p] =
                        Raised(upload_job_status("AssertionError"),
                               "AssertionError")]
  /\ UNCHANGED << resumes, jobs, processed_jobs, uuid_count, req, frame,
                  agent_calls, job_state, validated, norm_in, norm_out,
                  rt_job, rt_row, rt_out >>

\* lines 39-46: the next description gets an identifier and a Job, added to
\* the session
CreateJob(p) ==
  /\ pc[p] = "loop"
  /\ frame[p].i < Len(req[p].job_descriptions)
  /\ LET job_id == uuid4(uuid_count + 1)
         job == Job(job_id, py_str(req[p].resume_id),
                    req[p].job_descriptions[frame[p].i + 1])
     IN  /\ uuid_count' = uuid_count + 1
         /\ frame' = [frame EXCEPT ![p].i = @ + 1, ![p].job_id = job_id]
         /\ sess' = [sess EXCEPT ![p].new_jobs = @ \cup {job}]
         /\ job_state' = [job_state EXCEPT ![Number(job_id)] = "created"]
  /\ pc' = [pc EXCEPT ![p] = "extract"]
  /\ UNCHANGED << resumes, jobs, processed_jobs, req, resp, db_ops,
                  agent_calls, validated, norm_in, norm_out,
                  rt_job, rt_row, rt_out >>

\* lines 48-50, 71, 123-129: the extraction is called and awaits the agent
StartExtraction(p) ==
  /\ pc[p] = "extract"
  /\ agent_calls' = [agent_calls EXCEPT ![p] = Append(@, frame[p].i)]
  /\ job_state' = [job_state EXCEPT ![Number(frame[p].job_id)] =
                     "extraction_pending"]
  /\ pc' = [pc EXCEPT ![p] = "agent"]
  /\ UNCHANGED << resumes, jobs, processed_jobs, uuid_count, req, sess, frame,
                  resp, db_ops, validated, norm_in, norm_out,
                  rt_job, rt_row, rt_out >>

\* an exception leaves create_and_store_job for the handler's except clauses
ExtractionRaises(p, exc) ==
  /\ resp' = [resp EXCEPT ![p] = Raised(upload_job_status(exc), exc)]
  /\ job_state' = [job_state EXCEPT ![Number(frame[p].job_id)] =
                     "extraction_failed"]
  /\ pc' = [pc EXCEPT ![p] = "exit"]
  /\ sess' = sess
  /\ validated' = validated

\* lines 123-200 and 72-111: the prompt is built and the agent call ends,
\* in an exception ("AgentError" stands for whatever lines 123-129 raise) or
\* in an output; the output is normalized and validated, and the
\* ProcessedJob is added to the session.
\* (model_dump gives a mapping with the model's fields, which is never
\* falsy: the early return of line 74 is not taken.)
AgentReturn(p) ==
  /\ pc[p] = "agent"
  /\ \/ ExtractionRaises(p, "AgentError")
     \/ \E raw_output \in AgentOutputs :
          LET n == normalize_location(raw_output)
          IN  IF n.exc # "none"
              THEN ExtractionRaises(p, n.exc)
              ELSE IF ~model_validate(n.out)
              THEN ExtractionRaises(p, "ValidationError")
              ELSE /\ sess' = [sess EXCEPT ![p].new_processed = @ \cup
                          {ProcessedJob(frame[p].job_id, model_dump(n.out))}]
                   /\ validated' = validated \cup {frame[p].job_id}
                   /\ pc' = [pc EXCEPT ![p] = "flush"]
                   /\ UNCHANGED << resp, job_state >>
  /\ UNCHANGED << resumes, jobs, processed_jobs, uuid_count, req, frame,
                  db_ops, agent_calls, norm_in, norm_out,
                  rt_job, rt_row, rt_out >>

\* line 112: await self.db.flush()
Flush(p) ==
  /\ pc[p] = "flush"
  /\ sess' = [sess EXCEPT ![p] = session_flush(@)]
  /\ db_ops' = [db_ops EXCEPT ![p] = @ + 1]
  /\ pc' = [pc EXCEPT ![p] = "commit"]
  /\ UNCHANGED << resumes, jobs, processed_jobs, uuid_count, req, frame, resp,
                  agent_calls, job_state, validated, norm_in, norm_out,
                  rt_job, rt_row, rt_out >>

\* lines 113-115, 51-52: await self.db.commit(); the identifier is returned
\* and appended to job_ids
Commit(p) ==
  /\ pc[p] = "commit"
  /\ jobs' = jobs \cup committed_jobs(sess[p])
  /\ processed_jobs' = processed_jobs \cup committed_processed(sess[p])
  /\ sess' = [sess EXCEPT ![p] = NewSession]
  /\ frame' = [frame EXCEPT ![p].job_ids = Append(@, frame[p].job_id)]
  /\ job_state' = [job_state EXCEPT ![Number(frame[p].job_id)] =
                     "extraction_succeeded"]
  /\ pc' = [pc EXCEPT ![p] = "loop"]
  /\ UNCHANGED << resumes, uuid_count, req, resp, db_ops, agent_calls,
                  validated, norm_in, norm_out,
                  rt_job, rt_row, rt_out >>

\* lines 54-55 and upload_job lines 83-90: the loop is over, the last commit,
\* the response
FinalCommit(p) ==
  /\ pc[p] = "loop"
  /\ frame[p].i = Len(req[p].job_descriptions)
  /\ jobs' = jobs \cup committed_jobs(sess[p])
  /\ processed_jobs' = processed_jobs \cup committed_processed(sess[p])
  /\ sess' = [sess EXCEPT ![p] = NewSession]
  /\ resp' = [resp EXCEPT ![p] =
                [status |-> upload_job_status("none"), exc |-> "none",
                 job_id |-> frame[p].job_ids, data |-> {}]]
  /\ pc' = [pc EXCEPT ![p] = "exit"]
  /\ UNCHANGED << resumes, uuid_count, req, frame, db_ops, agent_calls,
                  job_state, validated, norm_in, norm_out,
                  rt_job, rt_row, rt_out >>

(***************************************************************************)
(* GET ?job_id=                                                            *)
(***************************************************************************)
\* get_job_with_processed_data, lines 226-251: the combined view; a null
\* processed_job is the empty set
\* json.loads(column) if column else None
loads_or_none(column) == IF Truthy(column) THEN json_loads(column.v) ELSE None

\* json.loads(column).get(key, []) if column else None
loads_get(column, key) ==
  IF Truthy(column)
  THEN dict_get(json_loads(column.v), key, List(<<>>))
  ELSE None

\* .get on what json.loads gave raises AttributeError unless it is a mapping
get_raises(column) == Truthy(column) /\ json_loads(column.v).t # "dict"

\* lines 245-249: an AttributeError leaves the building of the view
deserialize_raises(row) ==
  \/ get_raises(row.key_responsibilities)
  \/ get_raises(row.qualifications)
  \/ get_raises(row.compensation_and_benfits)
  \/ get_raises(row.application_info)
  \/ get_raises(row.extracted_keywords)

\* lines 238-251: the processed section of the view
processed_view(row) ==
  [location |-> loads_or_none(row.location),
   company_profile |-> loads_or_none(row.company_profile),
   key_responsibilities |->
     loads_get(row.key_responsibilities, <<"key_responsibilities">>),
   qualifications |-> loads_get(row.qualifications, <<"qualifications">>),
   compensation_and_benfits |->
     loads_get(row.compensation_and_benfits, <<"compensation_and_benfits">>),
   application_info |->
     loads_get(row.application_info, <<"application_info">>),
   extracted_keywords |->
     loads_get(row.extracted_keywords, <<"extracted_keywords">>)]

combined_data(job, processed) ==
  [job_id |-> job.job_id,
   raw_job |-> [resume_id |-> job.resume_id, content |-> job.content],
   processed_job |-> { processed_view(row) : row \in processed }]

\* the response of get_job once both rows are fetched: the view, or the
\* status for the AttributeError
get_job_response(job, processed) ==
  IF \E row \in processed : deserialize_raises(row)
  THEN [status |-> get_job_status("AttributeError"), exc |-> "AttributeError",
        job_id |-> <<>>, data |-> {}]
  ELSE [status |-> get_job_status("none"), exc |-> "none", job_id |-> <<>>,
        data |-> { combined_data(job, processed) }]

\* scalars().first(): one row of the result, none when it is empty
first(rows) == IF rows = {} THEN {} ELSE { CHOOSE r \in rows : TRUE }

\* get_job up to its first await: the check of the query parameter
GetRequest(p) ==
  /\ pc[p] = "idle"
  /\ \E job_id \in QueryIds :
       /\ req' = [req EXCEPT ![p] =
                    [kind |-> "get", content_type |-> None, resume_id |-> None,
                     job_descriptions |-> <<>>, job_id |-> job_id]]
       /\ IF job_id = EmptyId
          THEN /\ resp' = [resp EXCEPT ![p] =
                     Raised(get_job_status("HTTPException"), "HTTPException")]
               /\ pc' = [pc EXCEPT ![p] = "exit"]
          ELSE /\ resp' = resp
               /\ pc' = [pc EXCEPT ![p] = "job_query"]
  /\ UNCHANGED << resumes, jobs, processed_jobs, uuid_count, sess, frame,
                  db_ops, agent_calls, job_state, validated, norm_in, norm_out,
                  rt_job, rt_row, rt_out >>

\* lines 215-220: the Job is fetched
JobQuery(p) ==
  /\ pc[p] = "job_query"
  /\ db_ops' = [db_ops EXCEPT ![p] = @ + 1]
  /\ sess' = [sess EXCEPT ![p].begun = TRUE]
  /\ LET job == first({ j \in jobs : j.job_id = req[p].job_id })
     IN  IF job = {}
         THEN /\ resp' = [resp EXCEPT ![p] =
                    Raised(get_job_status("JobNotFoundError"),
                           "JobNotFoundError")]
              /\ pc' = [pc EXCEPT ![p] = "exit"]
              /\ frame' = frame
         ELSE /\ frame' = [frame EXCEPT ![p].job = job]
              /\ pc' = [pc EXCEPT ![p] = "processed_query"]
              /\ resp' = resp
  /\ UNCHANGED << resumes, jobs, processed_jobs, uuid_count, req,
                  agent_calls, job_state, validated, norm_in, norm_out,
                  rt_job, rt_row, rt_out >>

\* lines 222-253 and get_job lines 129-140: the ProcessedJob is fetched and
\* the combined view returned
ProcessedQuery(p) ==
  /\ pc[p] = "processed_query"
  /\ db_ops' = [db_ops EXCEPT ![p] = @ + 1]
  /\ LET job == CHOOSE j \in frame[p].job : TRUE
         processed ==
           first({ r \in processed_jobs : r.job_id = req[p].job_id })
     IN  resp' = [resp EXCEPT ![p] = get_job_response(job, processed)]
  /\ pc' = [pc EXCEPT ![p] = "exit"]
  /\ UNCHANGED << resumes, jobs, processed_jobs, uuid_count, req, sess, frame,
                  agent_calls, job_state, validated, norm_in, norm_out,
                  rt_job, rt_row, rt_out >>

(***************************************************************************)
(* get_db_session and the end of a request.                                *)
(***************************************************************************)
\* get_db_session, lines 136-140: commit when the handler returned, rollback
\* when it raised (an HTTPException included)
SessionExit(p) ==
  /\ pc[p] = "exit"
  /\ IF resp[p].exc = "none"
     THEN /\ jobs' = jobs \cup committed_jobs(sess[p])
          /\ processed_jobs' = processed_jobs \cup committed_processed(sess[p])
     ELSE UNCHANGED << jobs, processed_jobs >>
  /\ sess' = [sess EXCEPT ![p] = NewSession]
  /\ pc' = [pc EXCEPT ![p] = "done"]
  /\ UNCHANGED << resumes, uuid_count, req, frame, resp, db_ops, agent_calls,
                  job_state, validated, norm_in, norm_out,
                  rt_job, rt_row, rt_out >>

\* the task ends; the process is free for the next request
Finish(p) ==
  /\ pc[p] = "done"
  /\ pc' = [pc EXCEPT ![p] = "idle"]
  /\ req' = [req EXCEPT ![p] = NoRequest]
  /\ frame' = [frame EXCEPT ![p] = NoFrame]
  /\ resp' = [resp EXCEPT ![p] = NoResponse]
  /\ db_ops' = [db_ops EXCEPT ![p] = 0]
  /\ agent_calls' = [agent_calls EXCEPT ![p] = <<>>]
  /\ UNCHANGED << resumes, jobs, processed_jobs, uuid_count, sess, job_state,
                  validated, norm_in, norm_out,
                  rt_job, rt_row, rt_out >>

Next ==
  \E p \in Procs :
    \/ UploadRequest(p)
    \/ ResumeLookup(p)
    \/ CreateJob(p)
    \/ StartExtraction(p)
    \/ AgentReturn(p)
    \/ Flush(p)
    \/ Commit(p)
    \/ FinalCommit(p)
    \/ GetRequest(p)
    \/ JobQuery(p)
    \/ ProcessedQuery(p)
    \/ SessionExit(p)
    \/ Finish(p)

Spec == Init /\ [][Next]_vars

(***************************************************************************)
(* The location normalization on its own, over every agent output whose    *)
(* location is a text of at most MaxLocLen atoms or a value of another     *)
(* type.                                                                   *)
(***************************************************************************)
Atoms == { SEP, BLANK, "Remote", "Hybrid", "Fully", "x" }

LocationValues ==
  { Str(s) : s \in SeqsUpTo(Atoms, MaxLocLen) }
    \cup { None, PyDict, PyList, PyInt }

NormInputs ==
  { RawOutput("dict", TRUE, loc, TRUE) : loc \in LocationValues }
    \cup { RawOutput("dict", FALSE, None, TRUE),
           RawOutput("str", FALSE, None, FALSE) }

InitNorm ==
  /\ resumes = { <<"r1">> }
  /\ jobs = {}
  /\ processed_jobs = {}
  /\ uuid_count = 0
  /\ pc = [p \in Procs |-> "idle"]
  /\ req = [p \in Procs |-> NoRequest]
  /\ sess = [p \in Procs |-> NewSession]
  /\ frame = [p \in Procs |-> NoFrame]
  /\ resp = [p \in Procs |-> NoResponse]
  /\ db_ops = [p \in Procs |-> 0]
  /\ agent_calls = [p \in Procs |-> <<>>]
  /\ job_state = [n \in 1..MaxIds |-> "none"]
  /\ validated = {}
  /\ norm_in \in NormInputs
  /\ norm_out = Pending
  /\ rt_job = model_dump(RawOutput("dict", FALSE, None, TRUE))
  /\ rt_row = {}
  /\ rt_out = NoResponse

\* lines 143-179 applied to the output
NormalizeLocation ==
  /\ norm_out = Pending
  /\ norm_out' = normalize_location(norm_in)
  /\ UNCHANGED << resumes, jobs, processed_jobs, uuid_count, pc, req, sess,
                  frame, resp, db_ops, agent_calls, job_state, validated, norm_in,
                  rt_job, rt_row, rt_out >>

NextNorm == NormalizeLocation

SpecNorm == InitNorm /\ [][NextNorm]_vars

(***************************************************************************)
(* Storing and retrieving as functions of the validated structured job:    *)
(* the columns written for it in _extract_and_store_structured_job and the *)
(* view get_job_with_processed_data builds from them.                      *)
(***************************************************************************)
FieldNames ==
  { "company_profile", "location", "key_responsibilities", "qualifications",
    "compensation_and_benfits", "application_info", "extracted_keywords" }

Texts == { Str(<<"a">>), Str(<<"b">>) }

\* lists of texts
Lists == { List(items) : items \in SeqsUpTo(Texts, MaxItems) }

\* the names of an object's entries: one that is no field name and one
\* that is
Keys == { <<"required">>, <<"qualifications">> }
Entries == { Item(k, x) : k \in Keys, x \in Texts \cup { List(<<Str(<<"a">>)>>) } }

\* objects: every name at most once
Objects ==
  { Dict(items) : items \in
      { q \in SeqsUpTo(Entries, MaxItems) :
          \A i, j \in 1..Len(q) : q[i].k = q[j].k => i = j } }

FieldValues == { None } \cup Lists \cup Objects

\* validated structured jobs: the location is an allowed value, one of the
\* other fields takes any list or object, the rest are those of an accepted
\* output of the agent
StructuredJobs ==
  { [model_dump(RawOutput("dict", TRUE, Str(loc), TRUE)) EXCEPT ![f] = x] :
      loc \in allowed_locations, f \in FieldNames \ { "location" },
      x \in FieldValues }

InitRoundTrip ==
  /\ resumes = { <<"r1">> }
  /\ jobs = {}
  /\ processed_jobs = {}
  /\ uuid_count = 0
  /\ pc = [p \in Procs |-> "idle"]
  /\ req = [p \in Procs |-> NoRequest]
  /\ sess = [p \in Procs |-> NewSession]
  /\ frame = [p \in Procs |-> NoFrame]
  /\ resp = [p \in Procs |-> NoResponse]
  /\ db_ops = [p \in Procs |-> 0]
  /\ agent_calls = [p \in Procs |-> <<>>]
  /\ job_state = [n \in 1..MaxIds |-> "none"]
  /\ validated = {}
  /\ norm_in = RawOutput("str", FALSE, None, FALSE)
  /\ norm_out = Pending
  /\ rt_job \in StructuredJobs
  /\ rt_row = {}
  /\ rt_out = NoResponse

\* lines 76-109 applied to the validated structured job
Store ==
  /\ rt_row = {}
  /\ rt_row' = { ProcessedJob(uuid4(1), rt_job) }
  /\ UNCHANGED << resumes, jobs, processed_jobs, uuid_count, pc, req, sess,
                  frame, resp, db_ops, agent_calls, job_state, validated,
                  norm_in, norm_out, rt_job, rt_out >>

\* lines 226-253 and the handler's answer, applied to the stored row
Retrieve ==
  /\ rt_row # {}
  /\ rt_out = NoResponse
  /\ rt_out' = get_job_response(Job(uuid4(1), <<"r1">>, <<"a">>), rt_row)
  /\ UNCHANGED << resumes, jobs, processed_jobs, uuid_count, pc, req, sess,
                  frame, resp, db_ops, agent_calls, job_state, validated,
                  norm_in, norm_out, rt_job, rt_row >>

NextRoundTrip == Store \/ Retrieve

SpecRoundTrip == InitRoundTrip /\ [][NextRoundTrip]_vars

(***************************************************************************)
(* Helpers of the properties.                                              *)
(***************************************************************************)
\* get_job and get_job_with_processed_data run against the committed rows
\* with no commit in between: the response
get_job_now(job_id) ==
  IF job_id = EmptyId
  THEN Raised(get_job_status("HTTPException"), "HTTPException")
  ELSE LET job == first({ j \in jobs : j.job_id = job_id })
           processed == first({ r \in processed_jobs : r.job_id = job_id })
       IN  IF job = {}
           THEN Raised(get_job_status("JobNotFoundError"), "JobNotFoundError")
           ELSE get_job_response(CHOOSE j \in job : TRUE, processed)

IsUpload(p) == req[p].kind = "upload"
IsGet(p) == req[p].kind = "get"
Ended(p) == pc[p] = "done"
Answered(p) == pc[p] \in {"exit", "done"}
Descs(p) == req[p].job_descriptions

\* the session holds nothing that a commit would write
SessionEmpty(p) ==
  /\ sess[p].new_jobs = {}
  /\ sess[p].new_processed = {}
  /\ sess[p].flushed_jobs = {}
  /\ sess[p].flushed_processed = {}

(***************************************************************************)
(* C1: when the schema validation of the extraction output fails for a     *)
(* description during an upload, the Job row made for that description is  *)
(* in the database once the request has ended: get_job finds it, with the  *)
(* description as content and a null processed_job.                        *)
(***************************************************************************)
C1_RawJobSurvivesValidationFailure ==
  \A p \in Procs :
    (IsUpload(p) /\ Ended(p) /\ resp[p].exc = "ValidationError") =>
      LET r == get_job_now(frame[p].job_id)
      IN  /\ r.status = 200
          /\ \A d \in r.data :
               /\ d.raw_job.content = Descs(p)[frame[p].i]
               /\ d.processed_job = {}

(***************************************************************************)
(* C2: an upload whose resume_id matches no Resume row is answered 400,    *)
(* whatever the number of descriptions; it draws no identifier, runs no    *)
(* extraction, adds nothing to its session, and no Job row of the database *)
(* names a resume that does not exist.                                     *)
(***************************************************************************)
C2_UnknownResumeRejectedBeforeWrite ==
  /\ \A p \in Procs :
       (IsUpload(p) /\ py_str(req[p].resume_id) \notin resumes) =>
         /\ pc[p] \in {"is_resume_available", "exit", "done"}
         /\ Answered(p) => resp[p].status = 400
         /\ SessionEmpty(p)
         /\ frame[p].i = 0
         /\ agent_calls[p] = <<>>
  /\ \A j \in jobs : j.resume_id \in resumes
  /\ \A r \in processed_jobs :
       \E j \in jobs : j.job_id = r.job_id /\ j.resume_id \in resumes

\* an upload of the most descriptions for an unknown resume has ended with
\* 400 after its lookup, in a database that holds jobs of another upload
C2_Witness ==
  \E p \in Procs :
    /\ IsUpload(p) /\ Ended(p)
    /\ req[p].resume_id = Str(<<"r2">>)
    /\ Len(Descs(p)) = MaxDescs
    /\ db_ops[p] = 1
    /\ resp[p].status = 400
    /\ jobs # {}

(***************************************************************************)
(* C3: after an upload that returned success for d1..dn, the response      *)
(* lists n identifiers, no two equal, and retrieving the i-th one returns  *)
(* a raw_job whose content is di and whose resume_id is the request's.     *)
(***************************************************************************)
C3_UploadedJobsRetrievable ==
  \A p \in Procs :
    (IsUpload(p) /\ Answered(p) /\ resp[p].status = 200) =>
      LET ids == resp[p].job_id
      IN  /\ Len(ids) = Len(Descs(p))
          /\ \A i, k \in 1..Len(ids) : ids[i] = ids[k] => i = k
          /\ \A i \in 1..Len(ids) :
               LET r == get_job_now(ids[i])
               IN  /\ r.status = 200
                   /\ \A d \in r.data :
                        /\ d.job_id = ids[i]
                        /\ d.raw_job.content = Descs(p)[i]
                        /\ d.raw_job.resume_id = py_str(req[p].resume_id)

\* an upload of the most descriptions, not all the same, has ended in success
C3_Witness ==
  \E p \in Procs :
    /\ IsUpload(p) /\ Ended(p)
    /\ resp[p].status = 200
    /\ Len(resp[p].job_id) = MaxDescs
    /\ Descs(p)[1] # Descs(p)[2]

(***************************************************************************)
(* C4: descriptions are processed one after another in input order, each   *)
(* committed before the next is begun.  When an upload of d1..dn fails     *)
(* while processing dk (the agent raises, or the validation does), the Job *)
(* rows of d1..d(k-1) are in the database after the request has ended, and *)
(* for d(k+1)..dn no identifier was drawn, no extraction run and no row    *)
(* made.                                                                   *)
(***************************************************************************)
UpTo(n) == [i \in 1..n |-> i]

\* the Job row of the i-th description of p, under the identifier ids[i]
Persisted(p, ids, i) ==
  Job(ids[i], py_str(req[p].resume_id), Descs(p)[i]) \in jobs

C4_SequentialPartialCommit ==
  \A p \in Procs :
    (IsUpload(p) /\ pc[p] # "idle") =>
      LET k == frame[p].i
          ids == frame[p].job_ids
      IN  /\ agent_calls[p] \in { UpTo(k), UpTo(k - 1) }
          /\ Len(ids) \in { k, k - 1 }
          /\ \A i \in 1..Len(ids) : Persisted(p, ids, i)
          /\ (Ended(p) /\ resp[p].exc \in {"AgentError", "ValidationError"}) =>
               /\ k >= 1
               /\ agent_calls[p] = UpTo(k)
               /\ Len(ids) = k - 1
               /\ SessionEmpty(p)

\* an upload of three descriptions has ended in a validation failure at the
\* second: the first is persisted, the third was never begun
C4_Witness ==
  \E p \in Procs :
    /\ IsUpload(p) /\ Ended(p)
    /\ resp[p].exc = "ValidationError"
    /\ frame[p].i = 2
    /\ Len(Descs(p)) = 3
    /\ Persisted(p, frame[p].job_ids, 1)
    /\ uuid_count = 2

(***************************************************************************)
(* C5: an upload whose Content-Type header is missing or is not exactly    *)
(* application/json is answered 400 and sends nothing to the database:     *)
(* no resume lookup, no insert, no transaction begun.                      *)
(***************************************************************************)
C5_ContentTypeCheckedBeforeDatabase ==
  \A p \in Procs :
    (IsUpload(p) /\ req[p].content_type # Str(APPLICATION_JSON)) =>
      /\ Answered(p)
      /\ resp[p].status = 400
      /\ db_ops[p] = 0
      /\ ~sess[p].begun
      /\ SessionEmpty(p)
      /\ frame[p].i = 0

\* an upload with "application/json; charset=utf-8" for an existing resume
\* has ended with 400
C5_Witness ==
  \E p \in Procs :
    /\ IsUpload(p) /\ Ended(p)
    /\ Truthy(req[p].content_type)
    /\ req[p].content_type # Str(APPLICATION_JSON)
    /\ py_str(req[p].resume_id) \in resumes
    /\ Descs(p) # <<>>
    /\ resp[p].status = 400

(***************************************************************************)
(* C6: a retrieval of an identifier for which the Job query finds no row   *)
(* is answered 404, in every state of the database; a retrieval of an      *)
(* identifier is never answered 500.                                       *)
(***************************************************************************)
NoJobRow(job_id) == ~ \E j \in jobs : j.job_id = job_id

C6_MissingJobIsNotFound ==
  /\ [][ \A p \in Procs :
           (pc[p] = "job_query" /\ pc'[p] # "job_query"
              /\ NoJobRow(req[p].job_id)) =>
             (pc'[p] = "exit" /\ resp'[p].status = 404) ]_vars
  /\ [](\A p \in Procs :
          (IsGet(p) /\ req[p].job_id # EmptyId) =>
            /\ resp[p].status \in {0, 200, 404}
            /\ (Answered(p) /\ resp[p].status = 200) =>
                 \E j \in jobs : j.job_id = req[p].job_id)

\* a retrieval has ended with 404 while the database holds jobs
C6_Witness ==
  \E p \in Procs :
    /\ IsGet(p) /\ Ended(p)
    /\ resp[p].status = 404
    /\ req[p].job_id # EmptyId
    /\ jobs # {}

(***************************************************************************)
(* C7: for a location that is a text.  With a separator in it, the         *)
(* normalized location is the first piece, from the left and trimmed of    *)
(* blanks, that is one of the six allowed values, or "Not Specified" when  *)
(* no piece is; without a separator it stays as it is when it is one of    *)
(* the six and becomes "Not Specified" otherwise.                          *)
(***************************************************************************)
\* the positions that bound the pieces of s: 0, the separators, Len(s) + 1
Bounds(s) == {0, Len(s) + 1} \cup { i \in 1..Len(s) : s[i] = SEP }

\* the piece of s behind the bound a, without the blanks at its two ends
Trimmed(s, a) ==
  LET b == CHOOSE x \in Bounds(s) :
             x > a /\ \A y \in Bounds(s) : y > a => x <= y
      inner == { i \in (a + 1)..(b - 1) : s[i] # BLANK }
  IN  IF inner = {} THEN <<>>
      ELSE LET lo == CHOOSE i \in inner : \A k \in inner : i <= k
               hi == CHOOSE i \in inner : \A k \in inner : i >= k
           IN  SubSeq(s, lo, hi)

\* the bounds behind which a piece stands that is an allowed value
Recognized(s) ==
  { a \in Bounds(s) \ {Len(s) + 1} : Trimmed(s, a) \in allowed_locations }

Expected(s) ==
  IF Contains(s, SEP)
  THEN IF Recognized(s) = {} THEN NotSpecified
       ELSE Str(Trimmed(s, CHOOSE a \in Recognized(s) :
                             \A c \in Recognized(s) : a <= c))
  ELSE IF s \in allowed_locations THEN Str(s) ELSE NotSpecified

Normalized == norm_out # Pending
HasLocation == norm_in.kind = "dict" /\ norm_in.has_location

C7_TextLocationNormalized ==
  (Normalized /\ HasLocation /\ norm_in.location.t = "str") =>
    /\ norm_out.exc = "none"
    /\ norm_out.out.location = Expected(norm_in.location.v)

\* "Remote | Hybrid" has become "Remote"
C7_Witness ==
  /\ Normalized
  /\ norm_in.location = Str(<<"Remote", BLANK, SEP, BLANK, "Hybrid">>)
  /\ norm_out.out.location = Str(<<"Remote">>)

(***************************************************************************)
(* C8: in every state of the database each Job has at most one             *)
(* ProcessedJob row, every ProcessedJob row names a Job row that exists,   *)
(* a ProcessedJob row exists only for an identifier whose extraction       *)
(* output passed the validation, and a ProcessedJob row, once there, stays *)
(* as it is.                                                               *)
(***************************************************************************)
C8_ProcessedJobRows ==
  /\ [](/\ \A r1, r2 \in processed_jobs : r1.job_id = r2.job_id => r1 = r2
        /\ \A r \in processed_jobs : \E j \in jobs : j.job_id = r.job_id
        /\ \A r \in processed_jobs : r.job_id \in validated
        /\ \A p \in Procs :
             \A r \in sess[p].new_processed \cup sess[p].flushed_processed :
               r.job_id \in validated)
  /\ [][processed_jobs \subseteq processed_jobs']_vars

\* two ProcessedJob rows are committed while an upload has ended in a
\* validation failure
C8_Witness ==
  /\ Cardinality(processed_jobs) = 2
  /\ \E p \in Procs : Ended(p) /\ resp[p].exc = "ValidationError"

(***************************************************************************)
(* C9: a job moves created -> extraction_pending -> extraction_succeeded   *)
(* or extraction_failed and in no other way: the extraction is begun once  *)
(* per job, the two outcomes are final, and nothing leads back.            *)
(***************************************************************************)
Transitions ==
  { <<"none", "created">>,
    <<"created", "extraction_pending">>,
    <<"extraction_pending", "extraction_succeeded">>,
    <<"extraction_pending", "extraction_failed">> }

C9_JobStateMachine ==
  [][ \A n \in 1..MaxIds :
        job_state'[n] # job_state[n] =>
          <<job_state[n], job_state'[n]>> \in Transitions ]_vars

\* one job has succeeded and a later one has failed
C9_Witness ==
  \E n, m \in 1..MaxIds :
    /\ job_state[n] = "extraction_succeeded"
    /\ job_state[m] = "extraction_failed"
    /\ n < m

(***************************************************************************)
(* C10: when the agent output is a mapping with a location key, the        *)
(* normalization completes without raising and leaves a location that is   *)
(* one of the six allowed values, whatever the value was: null, a nested   *)
(* mapping and a list become "Not Specified".                              *)
(***************************************************************************)
C10_NormalizationTotal ==
  (Normalized /\ HasLocation) =>
    /\ norm_out.exc = "none"
    /\ InAllowed(norm_out.out.location)

(***************************************************************************)
(* C12: a retrieval whose job_id parameter is present and empty is         *)
(* answered 400 ("job_id is required"), not 500, and sends no query to the *)
(* database.                                                               *)
(***************************************************************************)
C12_EmptyJobIdIsClientError ==
  \A p \in Procs :
    (IsGet(p) /\ req[p].job_id = EmptyId /\ Answered(p)) =>
      /\ resp[p].status = 400
      /\ db_ops[p] = 0

(***************************************************************************)
(* C13: for a description whose output passed the validation, the Job row *)
(* and its ProcessedJob row are committed in one step; whatever the        *)
(* interleaving of uploads and retrievals, no retrieval returns such a Job *)
(* with a null processed_job.                                              *)
(***************************************************************************)
C13_JobAndProcessedJobTogether ==
  /\ [][ \A j \in jobs' \ jobs :
           j.job_id \in validated =>
             \E r \in processed_jobs' : r.job_id = j.job_id ]_vars
  /\ [](\A p \in Procs :
          (IsGet(p) /\ Answered(p) /\ resp[p].status = 200) =>
            \A d \in resp[p].data :
              d.job_id \in validated => d.processed_job # {})

\* a retrieval has returned, with its processed_job, the first job of an
\* upload that is still at work on its second description
C13_Witness ==
  \E p, q \in Procs :
    /\ IsGet(p) /\ Ended(p)
    /\ resp[p].status = 200
    /\ \A d \in resp[p].data : d.processed_job # {}
    /\ IsUpload(q)
    /\ pc[q] \in {"extract", "agent", "flush", "commit"}
    /\ frame[q].job_ids = << req[p].job_id >>

(***************************************************************************)
(* C11: storing then retrieving is a round trip for every list- or         *)
(* object-valued structured field: the retrieval of a row written for a    *)
(* validated structured job does not fail, and each of company_profile,    *)
(* location, key_responsibilities, qualifications,                         *)
(* compensation_and_benfits, application_info and extracted_keywords in    *)
(* the processed_job it returns equals the validated value.                *)
(***************************************************************************)
Retrieved == rt_out # NoResponse

C11_StructuredFieldsRoundTrip ==
  Retrieved =>
    /\ rt_out.status = 200
    /\ \A d \in rt_out.data :
         /\ d.processed_job # {}
         /\ \A view \in d.processed_job :
              \A f \in FieldNames : view[f] = rt_job[f]

=============================================================================
